---- MODULE Spec2Model ----
(***************************************************************************)
(* Model of the scaffold pipeline (package scaffold): Run and its helpers  *)
(* prepareBoilerplateFiles, parseVariables, parseModuleURL,                *)
(* rewriteModuleURL, rewriteTemplateURL, addRefToModuleURL and parseURL.   *)
(*                                                                         *)
(* Strings that hold source locations are modelled by their shape and      *)
(* components (a record), a url.URL by its fields; RawQuery is the         *)
(* sequence of key/value pairs of the query string, url.Values the map     *)
(* from key to the sequence of its values.                                 *)
(***************************************************************************)
EXTENDS Integers, Sequences, FiniteSets, TLC

VARIABLES
    pc,                 \* position of Run
    opts,               \* what Run reads of options.TerragruntOptions: WorkingDir state
    moduleURLArg,       \* Run's moduleURL argument
    templateURLArg,     \* Run's templateURL argument
    userVars,           \* the variables the user supplied (opts.ScaffoldVars / ScaffoldVarFiles)
    vars,               \* Run's vars map
    moduleURL,          \* Run's local moduleURL (reassigned by parseModuleURL)
    templateURL,        \* prepareBoilerplateFiles' templateURL (reassigned after rewriting)
    tempDir,            \* Run's tempDir
    templateDir,        \* prepareBoilerplateFiles' templateDir
    boilerplateDir,     \* the directory prepareBoilerplateFiles selected
    dirsToClean,        \* Run's dirsToClean
    fs,                 \* the filesystem: directory name -> set of entries in it
    inputs,             \* the declarations config.ParseVariables returned
    requiredVariables,  \* Run's requiredVariables
    optionalVariables,  \* Run's optionalVariables
    boilerplateOpts,    \* the options handed to templates.ProcessTemplate
    target,             \* content of opts.WorkingDir
    err,                \* the error Run returns
    stages,             \* the stages started, in order
    calls,              \* the collaborator calls made, in order
    logs,               \* the warnings logged, in order
    moduleLookup,       \* what the root split and tag lookup answered for the module URL
    templateLookup      \* what the root split and tag lookup answered for the template URL

vars_all == <<pc, opts, moduleURLArg, templateURLArg, userVars, vars, moduleURL,
              templateURL, tempDir, templateDir, boilerplateDir, dirsToClean, fs,
              inputs, requiredVariables, optionalVariables, boilerplateOpts,
              target, err, stages, calls, logs, moduleLookup, templateLookup>>

----------------------------------------------------------------------------
(* Program constants *)

sourceURLTypeHTTPS == "git-https"
sourceURLTypeGit == "git-ssh"
sourceGitSSHUser == "git"
sourceURLTypeVar == "SourceUrlType"
sourceGitSSHUserVar == "SourceGitSshUser"
refVar == "Ref"
refParam == "ref"
moduleURLParts == 4
DefaultBoilerplateDir == ".boilerplate"
DefaultTemplateFiles == {"terragrunt.hcl", "boilerplate.yml"}

\* the forced getters moduleURLPattern accepts: (?:git|hg|s3|gcs)::
moduleURLPatternGetters == {"git", "hg", "s3", "gcs"}

----------------------------------------------------------------------------
(* Bounds *)

MaxDecls == 2       \* longest declaration list the variable parser returns

----------------------------------------------------------------------------
(* Values of a map[string]interface{} *)

StrVal(s) == [t |-> "string", v |-> s]
IntVal(s) == [t |-> "int", v |-> s]         \* v: the decimal text of the number
ListVal(l) == [t |-> "list", v |-> l]

\* fmt.Sprintf("%s", value): the string itself for a string, the bad-verb
\* rendering %!s(type=value) for any other dynamic type.
Sprintf_s(value) ==
    IF value.t = "string" THEN value.v
    ELSE "%!s(" \o value.t \o "=" \o value.v \o ")"

----------------------------------------------------------------------------
(* net/url: url.Values over the query keys that occur *)

QueryKeys == {"depth", "ref", "z"}
SortedQueryKeys == <<"depth", "ref", "z">>      \* sort.Strings(keys) of Encode

\* URL.Query(): parse RawQuery into url.Values; a key's values keep their order.
RECURSIVE ValuesOf(_, _)
ValuesOf(raw, k) ==
    IF raw = <<>> THEN <<>>
    ELSE (IF Head(raw)[1] = k THEN <<Head(raw)[2]>> ELSE <<>>) \o ValuesOf(Tail(raw), k)

Query(raw) == [k \in QueryKeys |-> ValuesOf(raw, k)]

\* Values.Get: the first value of the key, or "".
Get(values, k) == IF values[k] = <<>> THEN "" ELSE Head(values[k])

\* Values.Set: replaces every value of the key.
Set(values, k, v) == [values EXCEPT ![k] = <<v>>]

\* Values.Add: appends to the key's values.
Add(values, k, v) == [values EXCEPT ![k] = Append(@, v)]

\* Values.Encode: keys in sorted order, each key's values in their order.
RECURSIVE EncodeFrom(_, _)
EncodeFrom(values, i) ==
    IF i > Len(SortedQueryKeys) THEN <<>>
    ELSE LET k == SortedQueryKeys[i]
         IN  [j \in 1..Len(values[k]) |-> <<k, values[k][j]>>] \o EncodeFrom(values, i + 1)

Encode(values) == EncodeFrom(values, 1)

----------------------------------------------------------------------------
(* Source strings and url.URL *)

\* A source string: form "empty" (""), "url" ([getter::]scheme://[user@]host/path[?query]),
\* "scp" (user@host:path[?query]), "path" (a relative local path) or "bad" (not a source).
\* path is a sequence of path pieces; "/" is the leading slash, "//" the module
\* subpath separator.
SrcString(form, getter, scheme, user, host, path, query) ==
    [form |-> form, getter |-> getter, scheme |-> scheme, user |-> user,
     host |-> host, path |-> path, query |-> query]

EmptyString == SrcString("empty", "", "", "", "", <<>>, <<>>)

\* url.URL: Scheme is getter::scheme, as terraform.ToSourceURL reattaches the
\* forced getter to the scheme.
URL(getter, scheme, user, host, path, rawQuery) ==
    [getter |-> getter, scheme |-> scheme, user |-> user, host |-> host,
     path |-> path, RawQuery |-> rawQuery]

NilURL == URL("", "", "", "", <<>>, <<>>)

\* URL.String()
String(u) == SrcString("url", u.getter, u.scheme, u.user, u.host, u.path, u.RawQuery)

\* terraform.ToSourceURL(source, workingDir): normalise a source string into a
\* url.URL with the source fetcher's conventions: a url keeps its components,
\* user@host:path is detected as git over ssh, a relative path becomes a file
\* URL under workingDir; anything else is an error.
ToSourceURL(source, workingDir) ==
    CASE source.form = "url" ->
            [url |-> URL(source.getter, source.scheme, source.user, source.host,
                         source.path, source.query),
             err |-> "nil"]
      [] source.form = "scp" ->
            [url |-> URL("git", "ssh", source.user, source.host,
                         <<"/">> \o source.path, source.query),
             err |-> "nil"]
      [] source.form = "path" ->
            [url |-> URL("", "file", "", "", <<"/">> \o workingDir \o source.path,
                         source.query),
             err |-> "nil"]
      [] OTHER -> [url |-> NilURL, err |-> "ToSourceURLError"]

\* terraform.SplitSourceURL: the root of the URL, its path cut at the module
\* subpath separator.
RECURSIVE RootPath(_)
RootPath(path) ==
    IF path = <<>> \/ Head(path) = "//" THEN <<>>
    ELSE <<Head(path)>> \o RootPath(Tail(path))

SplitSourceURL(u) == [u EXCEPT !.path = RootPath(u.path)]

----------------------------------------------------------------------------
(* Collaborator outcomes *)

\* What the root split and the tag lookup answer for one URL: SplitSourceURL's
\* error, then shell.GitLastReleaseTag's (tag, err).
LookupOutcome(splitErr, tag, tagErr) == [splitErr |-> splitErr, tag |-> tag, err |-> tagErr]

LookupOutcomes ==
    { LookupOutcome("nil", "v1.2.0", "nil"),
      LookupOutcome("nil", "", "nil"),
      LookupOutcome("nil", "", "GitLastReleaseTagError"),
      LookupOutcome("SplitSourceURLError", "", "nil") }

\* no answer: the root split and the tag lookup were not reached
NoLookup == LookupOutcome("nil", "", "NotCalled")

\* a collaborator call: the function, its directory and URL arguments, the error it returned
Call(fn, dir, url, e) == [fn |-> fn, dir |-> dir, url |-> url, err |-> e]

----------------------------------------------------------------------------
(* parseURL, rewriteModuleURL, addRefToModuleURL, rewriteTemplateURL, parseModuleURL *)

\* moduleURLRegex.FindStringSubmatch(moduleURL): the pattern needs a forced
\* getter of its list, a scheme, a non-empty authority and a path that starts
\* with "/"; group 3 runs to the end of the string, so it holds the query too.
FindStringSubmatch(str) ==
    IF /\ str.form = "url"
       /\ str.getter \in moduleURLPatternGetters
       /\ str.scheme # ""
       /\ str.host # ""
       /\ str.path # <<>>
       /\ Head(str.path) = "/"
    THEN << str,
            str.scheme,
            (IF str.user = "" THEN "" ELSE str.user \o "@") \o str.host,
            [path |-> str.path, query |-> str.query] >>
    ELSE <<>>

NilParsedURL == [scheme |-> "", host |-> "", path |-> [path |-> <<>>, query |-> <<>>]]

parseURL(str) ==
    LET matches == FindStringSubmatch(str)
    IN  IF Len(matches) # moduleURLParts
        THEN [value |-> NilParsedURL, err |-> "failedToParseURLError"]
        ELSE [value |-> [scheme |-> matches[2], host |-> matches[3], path |-> matches[4]],
              err |-> "nil"]

\* strings.TrimPrefix(path, "/")
TrimPrefixSlash(path) == IF path # <<>> /\ Head(path) = "/" THEN Tail(path) ELSE path

\* rewriteModuleURL with the test of sourceURLType left out of line 439
rewriteModuleURL_IgnoresType(workingDir, vs, url) ==
    LET parsed == parseURL(url)
        parsedValue == parsed.value
        gitUser == IF sourceGitSSHUserVar \in DOMAIN vs
                   THEN Sprintf_s(vs[sourceGitSSHUserVar])
                   ELSE sourceGitSSHUser
        updatedModuleURL ==
            IF parsedValue.scheme = "https"
            THEN SrcString("scp", "", "", gitUser, parsedValue.host,
                           TrimPrefixSlash(parsedValue.path.path), parsedValue.path.query)
            ELSE url
    IN  IF parsed.err # "nil"
        THEN LET r == ToSourceURL(url, workingDir)
             IN  [url |-> r.url, err |-> r.err, logs |-> <<"Failed to parse module url">>]
        ELSE LET r == ToSourceURL(updatedModuleURL, workingDir)
             IN  [url |-> r.url, err |-> r.err, logs |-> <<>>]

rewriteModuleURL(workingDir, vs, url) ==
    LET sourceURLType == IF sourceURLTypeVar \in DOMAIN vs
                         THEN Sprintf_s(vs[sourceURLTypeVar])
                         ELSE sourceURLTypeHTTPS
        parsed == parseURL(url)
        parsedValue == parsed.value
        gitUser == IF sourceGitSSHUserVar \in DOMAIN vs
                   THEN Sprintf_s(vs[sourceGitSSHUserVar])
                   ELSE sourceGitSSHUser
        updatedModuleURL ==
            IF parsedValue.scheme = "https" /\ sourceURLType = sourceURLTypeGit
            THEN SrcString("scp", "", "", gitUser, parsedValue.host,
                           TrimPrefixSlash(parsedValue.path.path), parsedValue.path.query)
            ELSE url
    IN  IF parsed.err # "nil"
        THEN LET r == ToSourceURL(url, workingDir)
             IN  [url |-> r.url, err |-> r.err, logs |-> <<"Failed to parse module url">>]
        ELSE LET r == ToSourceURL(updatedModuleURL, workingDir)
             IN  [url |-> r.url, err |-> r.err, logs |-> <<>>]

\* addRefToModuleURL returning the tag lookup's error instead of warning (line 507)
addRefToModuleURL_LookupFatal(parsedModuleURL, vs, lookup) ==
    LET params0 == Query(parsedModuleURL.RawQuery)
        refVarPassed == refVar \in DOMAIN vs
        params1 == IF refVarPassed
                   THEN Set(params0, refParam, Sprintf_s(vs[refVar]))
                   ELSE params0
        url1 == IF refVarPassed
                THEN [parsedModuleURL EXCEPT !.RawQuery = Encode(params1)]
                ELSE parsedModuleURL
        ref == Get(params1, refParam)
        rootSourceURL == SplitSourceURL(url1)
        lookedUp == <<Call("GitLastReleaseTag", <<>>, String(rootSourceURL), lookup.err)>>
    IN  IF ref # ""
        THEN [url |-> url1, err |-> "nil", calls |-> <<>>, logs |-> <<>>]
        ELSE IF lookup.splitErr # "nil"
        THEN [url |-> NilURL, err |-> lookup.splitErr, calls |-> <<>>, logs |-> <<>>]
        ELSE IF lookup.err # "nil"
        THEN [url |-> NilURL, err |-> lookup.err, calls |-> lookedUp, logs |-> <<>>]
        ELSE IF lookup.tag = ""
        THEN [url |-> url1, err |-> "nil", calls |-> lookedUp,
              logs |-> <<"Failed to find last release tag">>]
        ELSE [url |-> [url1 EXCEPT !.RawQuery = Encode(Add(params1, refParam, lookup.tag))],
              err |-> "nil", calls |-> lookedUp, logs |-> <<>>]

\* addRefToModuleURL asking the tag lookup a second time when it failed (line 506)
addRefToModuleURL_Retries(parsedModuleURL, vs, lookup) ==
    LET params0 == Query(parsedModuleURL.RawQuery)
        refVarPassed == refVar \in DOMAIN vs
        params1 == IF refVarPassed
                   THEN Set(params0, refParam, Sprintf_s(vs[refVar]))
                   ELSE params0
        url1 == IF refVarPassed
                THEN [parsedModuleURL EXCEPT !.RawQuery = Encode(params1)]
                ELSE parsedModuleURL
        ref == Get(params1, refParam)
        rootSourceURL == SplitSourceURL(url1)
        lookedUp == <<Call("GitLastReleaseTag", <<>>, String(rootSourceURL), lookup.err)>>
    IN  IF ref # ""
        THEN [url |-> url1, err |-> "nil", calls |-> <<>>, logs |-> <<>>]
        ELSE IF lookup.splitErr # "nil"
        THEN [url |-> NilURL, err |-> lookup.splitErr, calls |-> <<>>, logs |-> <<>>]
        ELSE IF lookup.err # "nil"
        THEN [url |-> url1, err |-> "nil", calls |-> lookedUp \o lookedUp,
              logs |-> <<"Failed to find last release tag">>]
        ELSE IF lookup.tag = ""
        THEN [url |-> url1, err |-> "nil", calls |-> lookedUp,
              logs |-> <<"Failed to find last release tag">>]
        ELSE [url |-> [url1 EXCEPT !.RawQuery = Encode(Add(params1, refParam, lookup.tag))],
              err |-> "nil", calls |-> lookedUp, logs |-> <<>>]

addRefToModuleURL(parsedModuleURL, vs, lookup) ==
    LET params0 == Query(parsedModuleURL.RawQuery)
        refVarPassed == refVar \in DOMAIN vs
        params1 == IF refVarPassed
                   THEN Set(params0, refParam, Sprintf_s(vs[refVar]))
                   ELSE params0
        url1 == IF refVarPassed
                THEN [parsedModuleURL EXCEPT !.RawQuery = Encode(params1)]
                ELSE parsedModuleURL
        ref == Get(params1, refParam)
        rootSourceURL == SplitSourceURL(url1)
        lookedUp == <<Call("GitLastReleaseTag", <<>>, String(rootSourceURL), lookup.err)>>
    IN  IF ref # ""
        THEN [url |-> url1, err |-> "nil", calls |-> <<>>, logs |-> <<>>]
        ELSE IF lookup.splitErr # "nil"
        THEN [url |-> NilURL, err |-> lookup.splitErr, calls |-> <<>>, logs |-> <<>>]
        ELSE IF lookup.err # "nil" \/ lookup.tag = ""
        THEN [url |-> url1, err |-> "nil", calls |-> lookedUp,
              logs |-> <<"Failed to find last release tag">>]
        ELSE [url |-> [url1 EXCEPT !.RawQuery = Encode(Add(params1, refParam, lookup.tag))],
              err |-> "nil", calls |-> lookedUp, logs |-> <<>>]

\* rewriteTemplateURL without lines 477-478: the tag found is not added
rewriteTemplateURL_NoPin(parsedTemplateURL, lookup) ==
    LET templateParams == Query(parsedTemplateURL.RawQuery)
        ref == Get(templateParams, refParam)
        rootSourceURL == SplitSourceURL(parsedTemplateURL)
        lookedUp == <<Call("GitLastReleaseTag", <<>>, String(rootSourceURL), lookup.err)>>
    IN  IF ref # ""
        THEN [url |-> parsedTemplateURL, err |-> "nil", calls |-> <<>>, logs |-> <<>>]
        ELSE IF lookup.splitErr # "nil"
        THEN [url |-> NilURL, err |-> lookup.splitErr, calls |-> <<>>, logs |-> <<>>]
        ELSE [url |-> parsedTemplateURL, err |-> "nil", calls |-> lookedUp,
              logs |-> <<"Failed to find last release tag">>]

\* rewriteTemplateURL returning the tag lookup's error instead of warning (line 474)
rewriteTemplateURL_LookupFatal(parsedTemplateURL, lookup) ==
    LET templateParams == Query(parsedTemplateURL.RawQuery)
        ref == Get(templateParams, refParam)
        rootSourceURL == SplitSourceURL(parsedTemplateURL)
        lookedUp == <<Call("GitLastReleaseTag", <<>>, String(rootSourceURL), lookup.err)>>
    IN  IF ref # ""
        THEN [url |-> parsedTemplateURL, err |-> "nil", calls |-> <<>>, logs |-> <<>>]
        ELSE IF lookup.splitErr # "nil"
        THEN [url |-> NilURL, err |-> lookup.splitErr, calls |-> <<>>, logs |-> <<>>]
        ELSE IF lookup.err # "nil"
        THEN [url |-> NilURL, err |-> lookup.err, calls |-> lookedUp, logs |-> <<>>]
        ELSE IF lookup.tag = ""
        THEN [url |-> parsedTemplateURL, err |-> "nil", calls |-> lookedUp,
              logs |-> <<"Failed to find last release tag">>]
        ELSE [url |-> [parsedTemplateURL EXCEPT
                          !.RawQuery = Encode(Add(templateParams, refParam, lookup.tag))],
              err |-> "nil", calls |-> lookedUp, logs |-> <<>>]

rewriteTemplateURL(parsedTemplateURL, lookup) ==
    LET templateParams == Query(parsedTemplateURL.RawQuery)
        ref == Get(templateParams, refParam)
        rootSourceURL == SplitSourceURL(parsedTemplateURL)
        lookedUp == <<Call("GitLastReleaseTag", <<>>, String(rootSourceURL), lookup.err)>>
    IN  IF ref # ""
        THEN [url |-> parsedTemplateURL, err |-> "nil", calls |-> <<>>, logs |-> <<>>]
        ELSE IF lookup.splitErr # "nil"
        THEN [url |-> NilURL, err |-> lookup.splitErr, calls |-> <<>>, logs |-> <<>>]
        ELSE IF lookup.err # "nil" \/ lookup.tag = ""
        THEN [url |-> parsedTemplateURL, err |-> "nil", calls |-> lookedUp,
              logs |-> <<"Failed to find last release tag">>]
        ELSE [url |-> [parsedTemplateURL EXCEPT
                          !.RawQuery = Encode(Add(templateParams, refParam, lookup.tag))],
              err |-> "nil", calls |-> lookedUp, logs |-> <<>>]

parseModuleURL(workingDir, vs, url, lookup) ==
    LET parsed == ToSourceURL(url, workingDir)
        rewritten == rewriteModuleURL(workingDir, vs, String(parsed.url))
        withRef == addRefToModuleURL(rewritten.url, vs, lookup)
    IN  IF parsed.err # "nil"
        THEN [url |-> EmptyString, err |-> parsed.err, calls |-> <<>>, logs |-> <<>>]
        ELSE IF rewritten.err # "nil"
        THEN [url |-> EmptyString, err |-> rewritten.err, calls |-> <<>>,
              logs |-> rewritten.logs]
        ELSE IF withRef.err # "nil"
        THEN [url |-> EmptyString, err |-> withRef.err, calls |-> withRef.calls,
              logs |-> rewritten.logs \o withRef.logs]
        ELSE [url |-> String(withRef.url), err |-> "nil", calls |-> withRef.calls,
              logs |-> rewritten.logs \o withRef.logs]

----------------------------------------------------------------------------
(* parseVariables *)

\* config.ParsedVariable, by the fields the pipeline reads
ParsedVariable(name, defaultValue) == [Name |-> name, DefaultValue |-> defaultValue]

\* the loop of parseVariables putting each declaration in front of its list
RECURSIVE classifyFrom_Prepend(_, _, _, _)
classifyFrom_Prepend(decls, i, required, optional) ==
    IF i > Len(decls) THEN [required |-> required, optional |-> optional]
    ELSE IF decls[i].DefaultValue = ""
         THEN classifyFrom_Prepend(decls, i + 1, <<decls[i]>> \o required, optional)
         ELSE classifyFrom_Prepend(decls, i + 1, required, <<decls[i]>> \o optional)

\* the loop of parseVariables over inputs[i..]
RECURSIVE classifyFrom(_, _, _, _)
classifyFrom(decls, i, required, optional) ==
    IF i > Len(decls) THEN [required |-> required, optional |-> optional]
    ELSE IF decls[i].DefaultValue = ""
         THEN classifyFrom(decls, i + 1, Append(required, decls[i]), optional)
         ELSE classifyFrom(decls, i + 1, required, Append(optional, decls[i]))

\* parsed: what config.ParseVariables returned, (inputs, err)
parseVariables(parsed) ==
    IF parsed.err # "nil"
    THEN [required |-> <<>>, optional |-> <<>>, err |-> parsed.err]
    ELSE LET r == classifyFrom(parsed.inputs, 1, <<>>, <<>>)
         IN  [required |-> r.required, optional |-> r.optional, err |-> "nil"]

----------------------------------------------------------------------------
(* Inputs of a run *)

ModulePath == <<"/", "org/repo.git", "//", "modules/foo">>

HTTPSModuleURL == SrcString("url", "git", "https", "", "example.com", ModulePath, <<>>)

ModuleURLs ==
    { EmptyString,
      HTTPSModuleURL,
      SrcString("url", "git", "https", "", "example.com", ModulePath, << <<"ref", "v0">> >>),
      SrcString("url", "git", "https", "", "example.com", ModulePath, << <<"ref", "">> >>),
      SrcString("url", "git", "https", "", "example.com", ModulePath,
                << <<"z", "1">>, <<"depth", "1">> >>),
      SrcString("url", "hg", "http", "", "example.com", ModulePath, <<>>),
      SrcString("url", "git", "ssh", "git", "example.com", <<"/", "org/repo.git">>, <<>>),
      SrcString("url", "", "https", "", "example.com", <<"/", "mod.zip">>, <<>>),
      SrcString("scp", "", "", "git", "example.com", <<"org/repo.git">>, <<>>),
      SrcString("path", "", "", "", "", <<"modules/foo">>, <<>>),
      SrcString("bad", "", "", "", "", <<>>, <<>>) }

TemplatePath == <<"/", "org/templates.git", "//", "base">>

TemplateURLs ==
    { EmptyString,
      SrcString("url", "git", "https", "", "example.com", TemplatePath, <<>>),
      SrcString("url", "git", "https", "", "example.com", TemplatePath, << <<"ref", "v3">> >>),
      SrcString("url", "git", "https", "", "example.com", TemplatePath, << <<"ref", "">> >>),
      SrcString("bad", "", "", "", "", <<>>, <<>>) }

EmptyVars == [k \in {} |-> StrVal("")]

UserSourceURL == SrcString("url", "", "https", "", "user.example", <<"/", "mine">>, <<>>)

\* the variable maps variables.ParseVars can return
VarMaps ==
    { EmptyVars,
      sourceURLTypeVar :> StrVal(sourceURLTypeGit),
      (sourceURLTypeVar :> StrVal(sourceURLTypeGit)) @@ (sourceGitSSHUserVar :> StrVal("alice")),
      sourceURLTypeVar :> StrVal(sourceURLTypeHTTPS),
      sourceURLTypeVar :> StrVal("http"),
      sourceGitSSHUserVar :> StrVal("alice"),
      refVar :> StrVal("v2"),
      refVar :> StrVal(""),
      refVar :> IntVal("5"),
      (sourceURLTypeVar :> StrVal(sourceURLTypeGit)) @@ (refVar :> StrVal("v2")),
      ("sourceUrl" :> StrVal(UserSourceURL))
         @@ ("requiredVariables" :> ListVal(<<>>))
         @@ ("optionalVariables" :> ListVal(<<>>))
         @@ ("EnableRootInclude" :> StrVal("false")) }

Declarations ==
    { ParsedVariable("a", ""), ParsedVariable("b", "5"), ParsedVariable("c", "") }

\* the declaration lists config.ParseVariables can return: a module declares
\* each variable once
DeclarationLists ==
    UNION { { l \in [1..n -> Declarations] : \A i, j \in 1..n : l[i] = l[j] => i = j }
            : n \in 0..MaxDecls }

WorkingDir == <<"workdir">>

\* the states opts.WorkingDir can be in when Run starts
WorkingDirStates ==
    { [readable |-> TRUE, content |-> {}],
      [readable |-> TRUE, content |-> {"main.tf"}],
      [readable |-> FALSE, content |-> {}] }

----------------------------------------------------------------------------
(* The filesystem: the set of paths that exist *)

JoinPath(dir, name) == Append(dir, name)

IsExistingDir(files, dir) == dir \in files

IsPrefix(s, t) == Len(s) <= Len(t) /\ SubSeq(t, 1, Len(s)) = s

\* os.RemoveAll(dir): dir and everything under it.  The removal of a directory
\* the run created itself is taken to succeed; the code only logs a failure.
RemoveAll(files, dir) == { f \in files : ~IsPrefix(dir, f) }

\* util.IsDirectoryEmpty(dir)
IsDirectoryEmpty(wd) ==
    IF wd.readable THEN [empty |-> wd.content = {}, err |-> "nil"]
    ELSE [empty |-> FALSE, err |-> "IsDirectoryEmptyError"]

NoDir == <<>>

----------------------------------------------------------------------------
(* Run *)

StageOrder == <<"Validate", "ResolveSource", "Fetch", "ExtractVariables", "Classify",
                "ResolveTemplate", "BuildEnvironment", "Render", "PostFormat", "Done">>

\* the state when Run is entered with one of the given inputs
InitWith(sources, templates) ==
    /\ pc = "Validate"
    /\ \E wd \in WorkingDirStates :
          /\ opts = [WorkingDir |-> WorkingDir, readable |-> wd.readable]
          /\ target = wd.content
    /\ \E source \in sources :
          /\ moduleURLArg = source[1]
          /\ userVars = source[2]
    /\ templateURLArg \in templates
    /\ vars = EmptyVars
    /\ moduleURL = moduleURLArg
    /\ templateURL = templateURLArg
    /\ tempDir = NoDir
    /\ templateDir = NoDir
    /\ boilerplateDir = NoDir
    /\ dirsToClean = <<>>
    /\ fs = {}
    /\ inputs = <<>>
    /\ requiredVariables = <<>>
    /\ optionalVariables = <<>>
    /\ boilerplateOpts = <<>>
    /\ err = "nil"
    /\ stages = <<>>
    /\ calls = <<>>
    /\ logs = <<>>
    /\ moduleLookup = NoLookup
    /\ templateLookup = NoLookup

\* the whole run: every module URL without variables, and every variable map
\* with the https module URL
Init == InitWith((ModuleURLs \X {EmptyVars}) \cup ({HTTPSModuleURL} \X VarMaps), TemplateURLs)

\* source resolution: every module URL with every variable map
InitResolve == InitWith(ModuleURLs \X VarMaps, {EmptyString})

NotEmptyWarning == "The working directory is not empty"

\* lines 217-228 without the test of line 226: an empty module URL is let through
checkInputs_NoURLCheck(wd, url) ==
    LET r == IsDirectoryEmpty(wd)
    IN  IF r.err # "nil"
        THEN [err |-> r.err, logs |-> <<>>]
        ELSE [err |-> "nil",
              logs |-> IF ~r.empty THEN <<NotEmptyWarning>> ELSE <<>>]

\* lines 217-228 doing what the comment of line 217 says: a directory with
\* content is refused
checkInputs_RejectsNonEmpty(wd, url) ==
    LET r == IsDirectoryEmpty(wd)
    IN  IF r.err # "nil"
        THEN [err |-> r.err, logs |-> <<>>]
        ELSE IF ~r.empty
        THEN [err |-> "WorkingDirNotEmptyError", logs |-> <<NotEmptyWarning>>]
        ELSE [err |-> IF url = EmptyString THEN "NoModuleURLPassed" ELSE "nil",
              logs |-> <<>>]

\* Run lines 217-228: the error the two checks return and the warning they log
checkInputs(wd, url) ==
    LET r == IsDirectoryEmpty(wd)
    IN  IF r.err # "nil"
        THEN [err |-> r.err, logs |-> <<>>]
        ELSE [err |-> IF url = EmptyString THEN "NoModuleURLPassed" ELSE "nil",
              logs |-> IF ~r.empty THEN <<NotEmptyWarning>> ELSE <<>>]

\* Run lines 217-228: the working directory check and the module URL check
Validate ==
    /\ pc = "Validate"
    /\ LET r == checkInputs([readable |-> opts.readable, content |-> target], moduleURL)
       IN  /\ logs' = logs \o r.logs
           /\ IF r.err # "nil"
              THEN /\ err' = r.err
                   /\ pc' = "Cleanup"
                   /\ stages' = stages \o <<"Validate", "Failed">>
              ELSE /\ err' = err
                   /\ pc' = "MkdirTemp"
                   /\ stages' = Append(stages, "Validate")
    /\ UNCHANGED <<opts, moduleURLArg, templateURLArg, userVars, vars, moduleURL,
                   templateURL, tempDir, templateDir, boilerplateDir, dirsToClean, fs,
                   inputs, requiredVariables, optionalVariables, boilerplateOpts,
                   target, calls,
                   moduleLookup, templateLookup>>

\* Run lines 230-236: os.MkdirTemp("", "scaffold") and its registration
MkdirTempScaffold ==
    /\ pc = "MkdirTemp"
    /\ \E mkErr \in {"nil", "MkdirTempError"} :
          IF mkErr # "nil"
          THEN /\ err' = mkErr
               /\ pc' = "Cleanup"
               /\ stages' = Append(stages, "Failed")
               /\ UNCHANGED <<tempDir, dirsToClean, fs>>
          ELSE /\ tempDir' = <<"scaffold">>
               /\ fs' = fs \cup {<<"scaffold">>}
               /\ dirsToClean' = Append(dirsToClean, <<"scaffold">>)
               /\ pc' = "ParseVars"
               /\ UNCHANGED <<err, stages>>
    /\ UNCHANGED <<opts, moduleURLArg, templateURLArg, userVars, vars, moduleURL,
                   templateURL, templateDir, boilerplateDir, inputs, requiredVariables,
                   optionalVariables, boilerplateOpts, target, calls, logs,
                   moduleLookup, templateLookup>>

\* Run lines 238-242: variables.ParseVars
ParseVars ==
    /\ pc = "ParseVars"
    /\ \E pvErr \in {"nil", "ParseVarsError"} :
          /\ calls' = Append(calls, Call("ParseVars", NoDir, EmptyString, pvErr))
          /\ IF pvErr # "nil"
             THEN /\ err' = pvErr
                  /\ pc' = "Cleanup"
                  /\ stages' = Append(stages, "Failed")
                  /\ vars' = vars
             ELSE /\ vars' = userVars
                  /\ pc' = "ResolveSource"
                  /\ UNCHANGED <<err, stages>>
    /\ UNCHANGED <<opts, moduleURLArg, templateURLArg, userVars, moduleURL, templateURL,
                   tempDir, templateDir, boilerplateDir, dirsToClean, fs, inputs,
                   requiredVariables, optionalVariables, boilerplateOpts, target, logs,
                   moduleLookup, templateLookup>>

\* Run lines 244-250: parseModuleURL
ResolveSource ==
    /\ pc = "ResolveSource"
    /\ \E lookup \in LookupOutcomes :
          LET r == parseModuleURL(opts.WorkingDir, vars, moduleURL, lookup)
          IN  /\ calls' = calls \o r.calls
              /\ logs' = logs \o r.logs
              /\ moduleLookup' = IF r.calls # <<>> \/ (r.err # "nil" /\ r.err = lookup.splitErr)
                                 THEN lookup ELSE NoLookup
              /\ IF r.err # "nil"
                 THEN /\ err' = r.err
                      /\ pc' = "Cleanup"
                      /\ stages' = stages \o <<"ResolveSource", "Failed">>
                      /\ moduleURL' = r.url
                 ELSE /\ moduleURL' = r.url
                      /\ pc' = "Fetch"
                      /\ stages' = Append(stages, "ResolveSource")
                      /\ err' = err
    /\ UNCHANGED <<opts, moduleURLArg, templateURLArg, userVars, vars, templateURL,
                   tempDir, templateDir, boilerplateDir, dirsToClean, fs, inputs,
                   requiredVariables, optionalVariables, boilerplateOpts, target,
                   templateLookup>>

\* Run lines 252-254 without the return of line 253: the fetch error is dropped
Fetch_IgnoresError ==
    /\ pc = "Fetch"
    /\ \E getErr \in {"nil", "GetAnyError"}, hasBoilerplate \in BOOLEAN :
          /\ calls' = Append(calls, Call("GetAny", tempDir, moduleURL, getErr))
          /\ IF getErr # "nil"
             THEN /\ hasBoilerplate = FALSE
                  /\ fs' = fs
             ELSE /\ fs' = fs \cup {JoinPath(tempDir, "main.tf")}
                           \cup (IF hasBoilerplate
                                 THEN {JoinPath(tempDir, DefaultBoilerplateDir)}
                                 ELSE {})
          /\ pc' = "ExtractVariables"
          /\ stages' = Append(stages, "Fetch")
          /\ err' = err
    /\ UNCHANGED <<opts, moduleURLArg, templateURLArg, userVars, vars, moduleURL,
                   templateURL, tempDir, templateDir, boilerplateDir, dirsToClean,
                   inputs, requiredVariables, optionalVariables, boilerplateOpts,
                   target, logs, moduleLookup, templateLookup>>

\* Run lines 252-254: getter.GetAny(ctx, tempDir, moduleURL); the module it
\* downloads may or may not hold the conventional template subdirectory
Fetch ==
    /\ pc = "Fetch"
    /\ \E getErr \in {"nil", "GetAnyError"}, hasBoilerplate \in BOOLEAN :
          /\ calls' = Append(calls, Call("GetAny", tempDir, moduleURL, getErr))
          /\ IF getErr # "nil"
             THEN /\ hasBoilerplate = FALSE
                  /\ err' = getErr
                  /\ pc' = "Cleanup"
                  /\ stages' = stages \o <<"Fetch", "Failed">>
                  /\ fs' = fs
             ELSE /\ fs' = fs \cup {JoinPath(tempDir, "main.tf")}
                           \cup (IF hasBoilerplate
                                 THEN {JoinPath(tempDir, DefaultBoilerplateDir)}
                                 ELSE {})
                  /\ pc' = "ExtractVariables"
                  /\ stages' = Append(stages, "Fetch")
                  /\ err' = err
    /\ UNCHANGED <<opts, moduleURLArg, templateURLArg, userVars, vars, moduleURL,
                   templateURL, tempDir, templateDir, boilerplateDir, dirsToClean,
                   inputs, requiredVariables, optionalVariables, boilerplateOpts,
                   target, logs,
                   moduleLookup, templateLookup>>

\* Run lines 256-262: parseVariables (config.ParseVariables, then the partition)
ExtractVariables ==
    /\ pc = "ExtractVariables"
    /\ \E parsed \in {[inputs |-> <<>>, err |-> "ParseVariablesError"]}
                     \cup {[inputs |-> l, err |-> "nil"] : l \in DeclarationLists} :
          LET r == parseVariables(parsed)
          IN  /\ calls' = Append(calls, Call("ParseVariables", tempDir, EmptyString, parsed.err))
              /\ inputs' = parsed.inputs
              /\ requiredVariables' = r.required
              /\ optionalVariables' = r.optional
              /\ IF r.err # "nil"
                 THEN /\ err' = r.err
                      /\ pc' = "Cleanup"
                      /\ stages' = stages \o <<"ExtractVariables", "Failed">>
                 ELSE /\ pc' = "PrepareTemplateURL"
                      /\ stages' = stages \o <<"ExtractVariables", "Classify">>
                      /\ err' = err
    /\ UNCHANGED <<opts, moduleURLArg, templateURLArg, userVars, vars, moduleURL,
                   templateURL, tempDir, templateDir, boilerplateDir, dirsToClean, fs,
                   boilerplateOpts, target, logs,
                   moduleLookup, templateLookup>>

\* prepareBoilerplateFiles lines 305-327: normalise and pin the template URL,
\* then os.MkdirTemp("", "template")
PrepareTemplateURL ==
    /\ pc = "PrepareTemplateURL"
    /\ IF templateURL = EmptyString
       THEN /\ pc' = "PrepareBoilerplateDir"
            /\ stages' = Append(stages, "ResolveTemplate")
            /\ UNCHANGED <<templateURL, templateDir, fs, err, calls, logs, templateLookup>>
       ELSE \E lookup \in LookupOutcomes, mkErr \in {"nil", "MkdirTempError"} :
               LET parsed == ToSourceURL(templateURL, tempDir)
                   r == rewriteTemplateURL(parsed.url, lookup)
               IN  IF parsed.err # "nil"
                   THEN /\ err' = parsed.err
                        /\ pc' = "Cleanup"
                        /\ stages' = stages \o <<"ResolveTemplate", "Failed">>
                        /\ UNCHANGED <<templateURL, templateDir, fs, calls, logs,
                                       templateLookup>>
                   ELSE /\ calls' = calls \o r.calls
                        /\ logs' = logs \o r.logs
                        /\ templateLookup' = IF r.calls # <<>> \/ (r.err # "nil" /\ r.err = lookup.splitErr)
                                             THEN lookup ELSE NoLookup
                        /\ IF r.err # "nil"
                           THEN /\ err' = r.err
                                /\ pc' = "Cleanup"
                                /\ stages' = stages \o <<"ResolveTemplate", "Failed">>
                                /\ UNCHANGED <<templateURL, templateDir, fs>>
                           ELSE /\ templateURL' = String(r.url)
                                /\ IF mkErr # "nil"
                                   THEN /\ err' = mkErr
                                        /\ pc' = "Cleanup"
                                        /\ stages' = stages \o <<"ResolveTemplate", "Failed">>
                                        /\ UNCHANGED <<templateDir, fs>>
                                   ELSE /\ templateDir' = <<"template">>
                                        /\ fs' = fs \cup {<<"template">>}
                                        /\ pc' = "DownloadTemplate"
                                        /\ stages' = Append(stages, "ResolveTemplate")
                                        /\ err' = err
    /\ UNCHANGED <<opts, moduleURLArg, templateURLArg, userVars, vars, moduleURL,
                   tempDir, boilerplateDir, dirsToClean, inputs, requiredVariables,
                   optionalVariables, boilerplateOpts, target,
                   moduleLookup>>

\* prepareBoilerplateFiles lines 329-335: getter.GetAny(ctx, templateDir, templateURL)
DownloadTemplate ==
    /\ pc = "DownloadTemplate"
    /\ \E getErr \in {"nil", "GetAnyError"} :
          /\ calls' = Append(calls, Call("GetAny", templateDir, templateURL, getErr))
          /\ IF getErr # "nil"
             THEN /\ err' = getErr
                  /\ pc' = "Cleanup"
                  /\ stages' = Append(stages, "Failed")
                  /\ fs' = fs
             ELSE /\ fs' = fs \cup {JoinPath(templateDir, "boilerplate.yml")}
                  /\ pc' = "PrepareBoilerplateDir"
                  /\ UNCHANGED <<err, stages>>
    /\ UNCHANGED <<opts, moduleURLArg, templateURLArg, userVars, vars, moduleURL,
                   templateURL, tempDir, templateDir, boilerplateDir, dirsToClean,
                   inputs, requiredVariables, optionalVariables, boilerplateOpts,
                   target, logs,
                   moduleLookup, templateLookup>>

\* lines 336-341 without the test of templateDir: always the module's subdirectory
selectBoilerplateDir_IgnoresTemplate(tplDir, modDir) ==
    JoinPath(modDir, DefaultBoilerplateDir)

\* prepareBoilerplateFiles lines 336-341: the template directory when a
\* template was fetched, else the conventional subdirectory of the module
selectBoilerplateDir(tplDir, modDir) ==
    IF tplDir # NoDir THEN tplDir ELSE JoinPath(modDir, DefaultBoilerplateDir)

\* prepareBoilerplateFiles lines 336-363: choose the boilerplate directory and,
\* if it does not exist, write the default template into a new one
PrepareBoilerplateDir ==
    /\ pc = "PrepareBoilerplateDir"
    /\ LET dir == selectBoilerplateDir(templateDir, tempDir)
       IN  IF IsExistingDir(fs, dir)
           THEN /\ boilerplateDir' = dir
                /\ pc' = "BuildEnvironment"
                /\ UNCHANGED <<fs, err, stages>>
           ELSE \E ioErr \in {"nil", "MkdirTempError", "WriteTemplateError", "WriteConfigError"} :
                   LET defaultTempDir == <<"boilerplate">>
                   IN  CASE ioErr = "MkdirTempError" ->
                              /\ UNCHANGED <<fs, boilerplateDir>>
                              /\ err' = ioErr
                              /\ pc' = "Cleanup"
                              /\ stages' = Append(stages, "Failed")
                         [] ioErr = "WriteTemplateError" ->
                              /\ fs' = fs \cup {defaultTempDir}
                              /\ UNCHANGED boilerplateDir
                              /\ err' = ioErr
                              /\ pc' = "Cleanup"
                              /\ stages' = Append(stages, "Failed")
                         [] ioErr = "WriteConfigError" ->
                              /\ fs' = fs \cup {defaultTempDir,
                                                JoinPath(defaultTempDir, "terragrunt.hcl")}
                              /\ UNCHANGED boilerplateDir
                              /\ err' = ioErr
                              /\ pc' = "Cleanup"
                              /\ stages' = Append(stages, "Failed")
                         [] OTHER ->
                              /\ fs' = fs \cup {defaultTempDir}
                                          \cup {JoinPath(defaultTempDir, f) : f \in DefaultTemplateFiles}
                              /\ boilerplateDir' = defaultTempDir
                              /\ pc' = "BuildEnvironment"
                              /\ UNCHANGED <<err, stages>>
    /\ UNCHANGED <<opts, moduleURLArg, templateURLArg, userVars, vars, moduleURL,
                   templateURL, tempDir, templateDir, dirsToClean, inputs,
                   requiredVariables, optionalVariables, boilerplateOpts, target,
                   calls, logs,
                   moduleLookup, templateLookup>>

\* Run lines 270-274: vars["requiredVariables"], vars["optionalVariables"], vars["sourceUrl"]
SetVar(m, k, v) == [x \in DOMAIN m \cup {k} |-> IF x = k THEN v ELSE m[x]]

\* lines 270-274 building a new map of the three injected keys only
addAdditionalVariables_OnlyInjected(vs, required, optional, url) ==
    SetVar(SetVar(SetVar(EmptyVars, "requiredVariables", ListVal(required)),
                  "optionalVariables", ListVal(optional)),
           "sourceUrl", StrVal(url))

\* line 274 storing the URL Run was called with instead of the resolved one
addAdditionalVariables_RawURL(vs, required, optional, url) ==
    SetVar(SetVar(SetVar(vs, "requiredVariables", ListVal(required)),
                  "optionalVariables", ListVal(optional)),
           "sourceUrl", StrVal(moduleURLArg))

addAdditionalVariables(vs, required, optional, url) ==
    SetVar(SetVar(SetVar(vs, "requiredVariables", ListVal(required)),
                  "optionalVariables", ListVal(optional)),
           "sourceUrl", StrVal(url))

\* Run lines 270-286: the variable environment and the boilerplate options
BuildEnvironment ==
    /\ pc = "BuildEnvironment"
    /\ vars' = addAdditionalVariables(vars, requiredVariables, optionalVariables, moduleURL)
    /\ boilerplateOpts' = << [OutputFolder |-> opts.WorkingDir,
                              Vars |-> vars',
                              DisableShell |-> TRUE,
                              DisableHooks |-> TRUE,
                              TemplateFolder |-> boilerplateDir] >>
    /\ stages' = Append(stages, "BuildEnvironment")
    /\ pc' = "Render"
    /\ UNCHANGED <<opts, moduleURLArg, templateURLArg, userVars, moduleURL, templateURL,
                   tempDir, templateDir, boilerplateDir, dirsToClean, fs, inputs,
                   requiredVariables, optionalVariables, target, err, calls, logs,
                   moduleLookup, templateLookup>>

\* Run lines 288-291: templates.ProcessTemplate writes into opts.WorkingDir; a
\* failed rendering may leave part of its output behind
Render ==
    /\ pc = "Render"
    /\ \E outcome \in {"nil", "ProcessTemplateError", "ProcessTemplateErrorPartial"} :
          /\ calls' = Append(calls, Call("ProcessTemplate", boilerplateOpts[1].TemplateFolder,
                                         EmptyString,
                                         IF outcome = "nil" THEN "nil"
                                         ELSE "ProcessTemplateError"))
          /\ CASE outcome = "nil" ->
                    /\ target' = target \cup {"terragrunt.hcl"}
                    /\ pc' = "PostFormat"
                    /\ stages' = Append(stages, "Render")
                    /\ err' = err
               [] outcome = "ProcessTemplateError" ->
                    /\ target' = target
                    /\ err' = "ProcessTemplateError"
                    /\ pc' = "Cleanup"
                    /\ stages' = stages \o <<"Render", "Failed">>
               [] OTHER ->
                    /\ target' = target \cup {"terragrunt.hcl (partial)"}
                    /\ err' = "ProcessTemplateError"
                    /\ pc' = "Cleanup"
                    /\ stages' = stages \o <<"Render", "Failed">>
    /\ UNCHANGED <<opts, moduleURLArg, templateURLArg, userVars, vars, moduleURL,
                   templateURL, tempDir, templateDir, boilerplateDir, dirsToClean, fs,
                   inputs, requiredVariables, optionalVariables, boilerplateOpts, logs,
                   moduleLookup, templateLookup>>

\* Run lines 293-301 without the return of line 296: the formatter's error is
\* only dropped
PostFormat_SwallowsError ==
    /\ pc = "PostFormat"
    /\ \E fmtErr \in {"nil", "HclfmtError"} :
          /\ calls' = Append(calls, Call("hclfmt", opts.WorkingDir, EmptyString, fmtErr))
          /\ target' = IF fmtErr # "nil" THEN target
                       ELSE (target \ {"terragrunt.hcl"}) \cup {"terragrunt.hcl (formatted)"}
          /\ err' = "nil"
          /\ stages' = stages \o <<"PostFormat", "Done">>
    /\ pc' = "Cleanup"
    /\ UNCHANGED <<opts, moduleURLArg, templateURLArg, userVars, vars, moduleURL,
                   templateURL, tempDir, templateDir, boilerplateDir, dirsToClean, fs,
                   inputs, requiredVariables, optionalVariables, boilerplateOpts, logs,
                   moduleLookup, templateLookup>>

\* Run lines 293-301: hclfmt.Run(opts) rewrites the generated file in place
PostFormat ==
    /\ pc = "PostFormat"
    /\ \E fmtErr \in {"nil", "HclfmtError"} :
          /\ calls' = Append(calls, Call("hclfmt", opts.WorkingDir, EmptyString, fmtErr))
          /\ IF fmtErr # "nil"
             THEN /\ target' = target
                  /\ err' = fmtErr
                  /\ stages' = stages \o <<"PostFormat", "Failed">>
             ELSE /\ target' = (target \ {"terragrunt.hcl"}) \cup {"terragrunt.hcl (formatted)"}
                  /\ err' = "nil"
                  /\ stages' = stages \o <<"PostFormat", "Done">>
    /\ pc' = "Cleanup"
    /\ UNCHANGED <<opts, moduleURLArg, templateURLArg, userVars, vars, moduleURL,
                   templateURL, tempDir, templateDir, boilerplateDir, dirsToClean, fs,
                   inputs, requiredVariables, optionalVariables, boilerplateOpts, logs,
                   moduleLookup, templateLookup>>

\* Run lines 209-215: the deferred function removes every directory of dirsToClean
RECURSIVE removeDirs(_, _)
removeDirs(files, dirs) ==
    IF dirs = <<>> THEN files
    ELSE removeDirs(RemoveAll(files, Head(dirs)), Tail(dirs))

\* the paths of the working directory's content
TargetPaths(content) == { JoinPath(WorkingDir, f) : f \in content }

\* what is left of the working directory's content when dirs are removed
TargetAfterRemoval(content, dirs) ==
    { f \in content : JoinPath(WorkingDir, f) \in removeDirs(TargetPaths(content), dirs) }

\* the deferred function also undoing the output of a failed run
Cleanup_RollsBack ==
    /\ pc = "Cleanup"
    /\ fs' = removeDirs(fs, dirsToClean)
    /\ target' = IF err # "nil"
                 THEN target \ {"terragrunt.hcl", "terragrunt.hcl (partial)"}
                 ELSE TargetAfterRemoval(target, dirsToClean)
    /\ pc' = "Returned"
    /\ UNCHANGED <<opts, moduleURLArg, templateURLArg, userVars, vars, moduleURL,
                   templateURL, tempDir, templateDir, boilerplateDir, dirsToClean,
                   inputs, requiredVariables, optionalVariables, boilerplateOpts,
                   err, stages, calls, logs,
                   moduleLookup, templateLookup>>

\* Run lines 209-215, run when Run returns: os.RemoveAll acts on the one
\* filesystem, which holds the scratch directories and the working directory
Cleanup ==
    /\ pc = "Cleanup"
    /\ fs' = removeDirs(fs, dirsToClean)
    /\ target' = TargetAfterRemoval(target, dirsToClean)
    /\ pc' = "Returned"
    /\ UNCHANGED <<opts, moduleURLArg, templateURLArg, userVars, vars, moduleURL,
                   templateURL, tempDir, templateDir, boilerplateDir, dirsToClean,
                   inputs, requiredVariables, optionalVariables, boilerplateOpts,
                   err, stages, calls, logs,
                   moduleLookup, templateLookup>>

Next ==
    \/ Validate
    \/ MkdirTempScaffold
    \/ ParseVars
    \/ ResolveSource
    \/ Fetch
    \/ ExtractVariables
    \/ PrepareTemplateURL
    \/ DownloadTemplate
    \/ PrepareBoilerplateDir
    \/ BuildEnvironment
    \/ Render
    \/ PostFormat
    \/ Cleanup

Spec == Init /\ [][Next]_vars_all

\* Run up to the return of parseModuleURL
NextResolve ==
    \/ Validate
    \/ MkdirTempScaffold
    \/ ParseVars
    \/ ResolveSource
    \/ Cleanup

SpecResolve == InitResolve /\ [][NextResolve]_vars_all

----------------------------------------------------------------------------
(* Helpers of the properties *)

Range(seq) == { seq[i] : i \in 1..Len(seq) }

Last(seq) == seq[Len(seq)]

ScratchDirs == { <<"scaffold">>, <<"template">>, <<"boilerplate">> }

\* the module URL as normalised by terraform.ToSourceURL, before any rewriting
NormalisedModuleURL == ToSourceURL(moduleURLArg, opts.WorkingDir).url

\* the template URL as normalised by terraform.ToSourceURL, before pinning
NormalisedTemplateURL == ToSourceURL(templateURLArg, <<"scaffold">>).url

\* the URL parseModuleURL hands to addRefToModuleURL
RewrittenModuleURL ==
    rewriteModuleURL(opts.WorkingDir, userVars, String(NormalisedModuleURL)).url

\* ResolveSource has returned without error
SourceResolved == "ResolveSource" \in Range(stages) /\ pc # "Cleanup" /\ pc # "Returned"

\* the answers the tag lookup can give a second time: the one it gave in this
\* run, or any when it was not asked
SameLookup(given) == IF given = NoLookup THEN LookupOutcomes ELSE {given}

----------------------------------------------------------------------------
(* C1 *)

\* C1: once Run has returned, whatever stage failed or succeeded, no scratch
\* directory created during the run (module, template, default template)
\* exists any more.
C1_NoScratchDirAfterRun ==
    pc = "Returned" => fs \cap ScratchDirs = {}

----------------------------------------------------------------------------
(* C2 *)

\* C2: when the Ref override is present in vars, the URL returned by
\* addRefToModuleURL has its ref query parameter equal to the override value,
\* whatever the URL's own ref and whatever the tag lookup answers.
C2_OverrideWins ==
    (pc = "Fetch" /\ refVar \in DOMAIN userVars)
        => Get(Query(moduleURL.query), refParam) = userVars[refVar].v

----------------------------------------------------------------------------
(* C3 *)

\* C3: addRefToModuleURL is idempotent: applied to its own output with the
\* same vars (and the same answer of the tag lookup) it returns a URL equal
\* to the output of the first application.
C3_AttachRefIdempotent ==
    pc = "Fetch" =>
        \A lookup \in SameLookup(moduleLookup) :
            LET once == addRefToModuleURL(RewrittenModuleURL, userVars, lookup)
                twice == addRefToModuleURL(once.url, userVars, lookup)
            IN  String(once.url) = moduleURL
                    => (twice.err = "nil" /\ twice.url = once.url)

----------------------------------------------------------------------------
(* C4 *)

\* the SourceUrlType variable explicitly selects SSH
SSHRequested ==
    sourceURLTypeVar \in DOMAIN userVars
        /\ userVars[sourceURLTypeVar] = StrVal(sourceURLTypeGit)

\* parseURL reads the scheme https from the normalised module URL
ParsedSchemeIsHTTPS ==
    LET parsed == parseURL(String(NormalisedModuleURL))
    IN  parsed.err = "nil" /\ parsed.value.scheme = "https"

\* the git-over-ssh URL the transport rewrite builds from the normalised URL
SSHForm(u, gitUser) ==
    URL("git", "ssh", gitUser,
        (IF u.user = "" THEN "" ELSE u.user \o "@") \o u.host,
        u.path, u.RawQuery)

SSHUser ==
    IF sourceGitSSHUserVar \in DOMAIN userVars
    THEN userVars[sourceGitSSHUserVar].v
    ELSE sourceGitSSHUser

\* scheme, authority and path of a source string are those of a url.URL
SameLocation(str, u) ==
    /\ str.form = "url"
    /\ str.getter = u.getter
    /\ str.scheme = u.scheme
    /\ str.user = u.user
    /\ str.host = u.host
    /\ str.path = u.path

\* C4: rewriteModuleURL rewrites HTTPS to SSH if and only if the parsed scheme
\* is https and SourceUrlType selects git-ssh; in every other case it returns
\* the URL with scheme and content unchanged.  The URL Run then fetches has
\* the location rewriteModuleURL returned.
C4_TransportRewriteOnlyHTTPSAndSSH ==
    SourceResolved =>
        /\ IF ParsedSchemeIsHTTPS /\ SSHRequested
           THEN RewrittenModuleURL = SSHForm(NormalisedModuleURL, SSHUser)
           ELSE RewrittenModuleURL = NormalisedModuleURL
        /\ SameLocation(moduleURL, RewrittenModuleURL)

\* C4 witness: a resolved run in which the rewrite was applied
C4_Witness_Rewritten ==
    /\ SourceResolved
    /\ ParsedSchemeIsHTTPS /\ SSHRequested
    /\ moduleURL.scheme = "ssh"

----------------------------------------------------------------------------
(* C5 *)

IsRequired(d) == d.DefaultValue = ""
IsOptional(d) == d.DefaultValue # ""

\* the variable parser has returned a list and parseVariables has partitioned it
Classified == "Classify" \in Range(stages)

\* C5: parseVariables partitions the parser's list: required holds exactly the
\* declarations whose defaultValue is "", optional the others, each in the
\* input's relative order, every element in exactly one list, the lengths add
\* up, and an empty input gives two empty lists without error.
C5_ClassifyPartitions ==
    Classified =>
        /\ requiredVariables = SelectSeq(inputs, IsRequired)
        /\ optionalVariables = SelectSeq(inputs, IsOptional)
        /\ Len(requiredVariables) + Len(optionalVariables) = Len(inputs)
        /\ \A d \in Range(inputs) :
              (d \in Range(requiredVariables)) # (d \in Range(optionalVariables))
        /\ Range(requiredVariables) \cup Range(optionalVariables) = Range(inputs)
        /\ (inputs = <<>> => requiredVariables = <<>> /\ optionalVariables = <<>>)

\* C5 witness: a full list of declarations with at least one required and one
\* optional declaration has been classified
C5_Witness_Classified ==
    /\ Classified
    /\ Len(inputs) = MaxDecls
    /\ Len(requiredVariables) >= 1
    /\ Len(optionalVariables) >= 1

----------------------------------------------------------------------------
(* C6 *)

HasNoRef(rawQuery) == Query(rawQuery)[refParam] = <<>>

LookupFailedOrEmpty(given) ==
    /\ given # NoLookup
    /\ given.splitErr = "nil"
    /\ (given.err # "nil" \/ given.tag = "")

GetAnyInto(dir) == { c \in Range(calls) : c.fn = "GetAny" /\ c.dir = dir }

\* C6: without a Ref override and without a ref in the URL, a tag lookup that
\* fails or answers the empty tag fails nothing: the URL stays without ref and
\* the run goes on to fetch it; the same holds for the template URL.
C6_LookupFailureNotFatal ==
    /\ (/\ refVar \notin DOMAIN userVars
        /\ HasNoRef(NormalisedModuleURL.RawQuery)
        /\ LookupFailedOrEmpty(moduleLookup))
         => /\ HasNoRef(moduleURL.query)
            /\ SameLocation(moduleURL, RewrittenModuleURL)
            /\ (pc = "Fetch" \/ "Fetch" \in Range(stages))
            /\ \A c \in GetAnyInto(tempDir) : c.url = moduleURL
    /\ (/\ HasNoRef(NormalisedTemplateURL.RawQuery)
        /\ LookupFailedOrEmpty(templateLookup))
         => /\ HasNoRef(templateURL.query)
            /\ (\/ pc = "DownloadTemplate"
                \/ GetAnyInto(<<"template">>) # {}
                \/ err = "MkdirTempError")
            /\ \A c \in GetAnyInto(<<"template">>) : c.url = templateURL

\* C6 witness: the module fetch was called with an unpinned URL after a failed lookup
C6_Witness_FetchedUnpinned ==
    /\ refVar \notin DOMAIN userVars
    /\ moduleLookup.err = "GitLastReleaseTagError"
    /\ GetAnyInto(<<"scaffold">>) # {}
    /\ HasNoRef(moduleURL.query)

----------------------------------------------------------------------------
(* C7 *)

\* the stages started, without the terminal Failed
StagesStarted ==
    IF stages # <<>> /\ Last(stages) = "Failed"
    THEN SubSeq(stages, 1, Len(stages) - 1)
    ELSE stages

\* positions in calls of the fetches into a directory
FetchPositions(dir) ==
    { i \in 1..Len(calls) : calls[i].fn = "GetAny" /\ calls[i].dir = dir }

\* C7: the stages start in the fixed order, each at most once and only after
\* the earlier ones succeeded; a fatal error ends in Failed with no later
\* stage started; Done is reached only without error; the module is fetched
\* before the template.
C7_StagesInOrder ==
    /\ IsPrefix(StagesStarted, StageOrder)
    /\ \A i \in 1..Len(stages) : stages[i] = "Failed" => i = Len(stages)
    /\ (err # "nil") = ("Failed" \in Range(stages))
    /\ \A i \in 1..Len(calls) :
          (calls[i].err # "nil" /\ calls[i].fn # "GitLastReleaseTag")
              => /\ i = Len(calls)
                 /\ pc \in {"Cleanup", "Returned"}
                 /\ err = calls[i].err
    /\ ("Failed" \in Range(stages) \/ "Done" \in Range(stages))
          = (pc \in {"Cleanup", "Returned"})
    /\ Cardinality(FetchPositions(<<"scaffold">>)) <= 1
    /\ Cardinality(FetchPositions(<<"template">>)) <= 1
    /\ \A j \in FetchPositions(<<"template">>) :
          /\ \E i \in FetchPositions(<<"scaffold">>) : i < j
          /\ "Fetch" \in Range(stages)

\* C7 witness: a run that went through every stage and fetched a template
C7_Witness_AllStages ==
    /\ pc = "Returned"
    /\ stages = StageOrder
    /\ FetchPositions(<<"template">>) # {}

----------------------------------------------------------------------------
(* C8 *)

\* prepareBoilerplateFiles has resolved an explicit template URL
TemplateResolved == templateDir # NoDir

----------------------------------------------------------------------------
(* C9 *)

\* prepareBoilerplateFiles has just returned an error to Run
PrepareFailed ==
    /\ pc = "Cleanup"
    /\ err # "nil"
    /\ Last(StagesStarted) = "ResolveTemplate"

\* prepareBoilerplateFiles has just returned a directory to Run
PrepareSucceeded == pc = "BuildEnvironment"

ConventionalDir == JoinPath(tempDir, DefaultBoilerplateDir)

\* C9 as claimed: an error only when an explicit template URL was given and
\* fetching it failed; with an empty template URL never an error.
C9_FailsOnlyOnTemplateFetch ==
    PrepareFailed => (templateURLArg # EmptyString /\ err = "GetAnyError")

\* C9 amended: with an explicit template URL the errors are those of its
\* normalisation, of the root split, of creating the template scratch
\* directory and of the fetch; with an empty template URL the only errors are
\* those of creating the default template's directory and writing its two
\* files, and only when the module has no conventional subdirectory; a failed
\* or empty tag lookup is never an error; with an empty template URL and a
\* conventional subdirectory the result is that subdirectory.
C9_PrepareErrors ==
    /\ PrepareFailed =>
          IF templateURLArg # EmptyString
          THEN err \in {"ToSourceURLError", "SplitSourceURLError", "MkdirTempError",
                        "GetAnyError"}
          ELSE /\ err \in {"MkdirTempError", "WriteTemplateError", "WriteConfigError"}
               /\ ~IsExistingDir(fs, ConventionalDir)
    /\ (PrepareSucceeded /\ templateURLArg = EmptyString /\ IsExistingDir(fs, ConventionalDir))
          => boilerplateDir = ConventionalDir
    /\ (PrepareSucceeded /\ templateURLArg = EmptyString /\ ~IsExistingDir(fs, ConventionalDir))
          => /\ boilerplateDir = <<"boilerplate">>
             /\ \A f \in DefaultTemplateFiles : JoinPath(boilerplateDir, f) \in fs

\* C9 witness: no template URL, no conventional subdirectory, and the default
\* template could not be written
C9_Witness_DefaultTemplateFailed ==
    /\ PrepareFailed
    /\ templateURLArg = EmptyString
    /\ err = "WriteConfigError"

----------------------------------------------------------------------------
(* C10 *)

ReservedKeys == {"requiredVariables", "optionalVariables", "sourceUrl"}

\* the variable environment handed to the template engine
Environment == boilerplateOpts[1].Vars

Rendering == \E c \in Range(calls) : c.fn = "ProcessTemplate"

\* C10: the environment handed to the template engine holds every user key
\* with the user's value, except the three reserved keys, which hold the
\* classified lists and the resolved source URL even when the user supplied
\* them; the merge drops or changes no other key.
C10_EnvironmentKeepsUserVars ==
    Rendering =>
        /\ DOMAIN Environment = DOMAIN userVars \cup ReservedKeys
        /\ \A k \in DOMAIN userVars \ ReservedKeys : Environment[k] = userVars[k]
        /\ Environment["requiredVariables"] = ListVal(requiredVariables)
        /\ Environment["optionalVariables"] = ListVal(optionalVariables)
        /\ Environment["sourceUrl"] = StrVal(moduleURL)

\* C10 witness: the user supplied the reserved keys and another key, and the
\* template engine was called
C10_Witness_Collision ==
    /\ Rendering
    /\ ReservedKeys \subseteq DOMAIN userVars
    /\ "EnableRootInclude" \in DOMAIN userVars
    /\ requiredVariables # <<>>

----------------------------------------------------------------------------
(* C11 *)

Terminal == pc \in {"Cleanup", "Returned"}

NothingStarted ==
    /\ fs = {}
    /\ tempDir = NoDir
    /\ dirsToClean = <<>>
    /\ calls = <<>>

\* C11 as claimed: with an empty module URL Run fails with NoModuleURLPassed
\* whatever the state of the working directory, before any scratch directory
\* exists and before any collaborator is called.
C11_EmptyURLAlwaysMissingSource ==
    moduleURLArg = EmptyString =>
        /\ pc \in {"Validate", "Cleanup", "Returned"}
        /\ NothingStarted
        /\ Terminal => err = "NoModuleURLPassed"

\* C11 amended: with an empty module URL Run fails in Validate, before any
\* scratch directory exists and before any collaborator is called; the error
\* is NoModuleURLPassed when the emptiness check of the working directory
\* returned no error (directory empty or not), and the error of that check
\* when it returned one.
C11_EmptyURLFailsInValidate ==
    moduleURLArg = EmptyString =>
        /\ pc \in {"Validate", "Cleanup", "Returned"}
        /\ NothingStarted
        /\ Terminal =>
              /\ stages = <<"Validate", "Failed">>
              /\ err = IF opts.readable THEN "NoModuleURLPassed"
                       ELSE "IsDirectoryEmptyError"

\* C11 witness: Run returned NoModuleURLPassed for a working directory with content
C11_Witness_EmptyURLNonEmptyDir ==
    /\ pc = "Returned"
    /\ moduleURLArg = EmptyString
    /\ target # {}
    /\ err = "NoModuleURLPassed"

----------------------------------------------------------------------------
(* C12 *)

\* the working directory states that can be read
ReadableStates == { wd \in WorkingDirStates : wd.readable }

Warned == NotEmptyWarning \in Range(logs)

\* the content the working directory had when Run was entered: Render and
\* PostFormat only add and rewrite the generated file
InitialContent == target \ {"terragrunt.hcl", "terragrunt.hcl (partial)",
                            "terragrunt.hcl (formatted)"}

----------------------------------------------------------------------------
(* C13 *)

CallPositions(fn) == { i \in 1..Len(calls) : calls[i].fn = fn }

RenderSucceeded == \E i \in CallPositions("ProcessTemplate") : calls[i].err = "nil"

FormatSucceeded == \E i \in CallPositions("hclfmt") : calls[i].err = "nil"

\* C13: the formatter is called at most once, only after a successful call of
\* the template engine, and exactly once in a run whose rendering succeeded;
\* when it returns an error Run returns that error and Done is not reached;
\* Run returns nil only when rendering and formatting both succeeded.
C13_FormatOnceAfterRender ==
    /\ Cardinality(CallPositions("hclfmt")) <= 1
    /\ \A j \in CallPositions("hclfmt") :
          \E i \in CallPositions("ProcessTemplate") : i < j /\ calls[i].err = "nil"
    /\ (Terminal /\ RenderSucceeded) => Cardinality(CallPositions("hclfmt")) = 1
    /\ \A j \in CallPositions("hclfmt") :
          calls[j].err # "nil" =>
              /\ err = calls[j].err
              /\ "Done" \notin Range(stages)
              /\ Last(stages) = "Failed"
    /\ (Terminal /\ err = "nil") =>
          /\ RenderSucceeded
          /\ FormatSucceeded
          /\ Last(stages) = "Done"

\* C13 witness: rendering succeeded, the formatter failed and Run returned its error
C13_Witness_FormatFailed ==
    /\ pc = "Returned"
    /\ RenderSucceeded
    /\ \E j \in CallPositions("hclfmt") : calls[j].err = "HclfmtError"
    /\ err = "HclfmtError"
    /\ "terragrunt.hcl" \in target

----------------------------------------------------------------------------
(* C14 *)

\* C14: no step of the run other than Render and PostFormat changes the
\* content of the working directory: a run that fails before Render leaves it
\* as it was, and the cleanup of a run that failed at Render or PostFormat
\* removes nothing from it.
C14_TargetOnlyWrittenByRenderAndFormat ==
    [][pc \notin {"Render", "PostFormat"} => target' = target]_vars_all

\* C14 witness: a failed rendering left part of its output, and the cleanup
\* that followed removed the module's scratch directory and not that output
C14_Witness_PartialOutputKept ==
    /\ pc = "Returned"
    /\ err = "ProcessTemplateError"
    /\ "terragrunt.hcl (partial)" \in target
    /\ <<"scaffold">> \notin fs

----------------------------------------------------------------------------
(* C15 *)

\* C15: while Run has not returned, every scratch directory of the run that
\* exists on the filesystem is in dirsToClean (it was registered as soon as
\* it was created, before the next operation that can fail).
C15_ScratchDirsRegistered ==
    pc # "Returned" => (fs \cap ScratchDirs) \subseteq Range(dirsToClean)

\* the second half of C15: dirsToClean is only appended to
C15_CleanupListOnlyGrows ==
    [][IsPrefix(dirsToClean, dirsToClean')]_vars_all

----------------------------------------------------------------------------
(* C16 *)

CarriesRef(rawQuery) == Query(rawQuery)[refParam] # <<>>

\* C16: without a Ref override, a module URL that already carries a ref
\* parameter comes out of addRefToModuleURL with its query unchanged and
\* without the tag lookup having been asked; likewise a template URL that
\* already carries a ref comes out of rewriteTemplateURL unchanged.
C16_ExistingRefUntouched ==
    /\ (/\ "ResolveSource" \in Range(stages)
        /\ refVar \notin DOMAIN userVars
        /\ CarriesRef(RewrittenModuleURL.RawQuery))
         => /\ moduleLookup = NoLookup
            /\ err # "SplitSourceURLError"
            /\ pc \notin {"Cleanup", "Returned"} \/ "Fetch" \in Range(stages)
            /\ moduleURL.query = RewrittenModuleURL.RawQuery
    /\ (/\ "ResolveTemplate" \in Range(stages)
        /\ CarriesRef(NormalisedTemplateURL.RawQuery))
         => /\ templateLookup = NoLookup
            /\ err # "SplitSourceURLError"
            /\ templateURL.query = NormalisedTemplateURL.RawQuery

----------------------------------------------------------------------------
(* C17 *)

\* C17: the URL addRefToModuleURL returns, and the URL rewriteTemplateURL
\* returns, has at most one value under ref in its query.
C17_AtMostOneRef ==
    /\ SourceResolved => Len(Query(moduleURL.query)[refParam]) <= 1
    /\ TemplateResolved => Len(Query(templateURL.query)[refParam]) <= 1

----------------------------------------------------------------------------
(* C18 *)

\* prepareBoilerplateFiles has returned a directory and Run has not cleaned up
Selected == pc \in {"BuildEnvironment", "Render", "PostFormat"}

FilesIn(dir) == { f \in fs : IsPrefix(dir, f) /\ f # dir }

\* C18: the directory selected is the one the template URL was fetched into
\* whenever a template URL was given, the module having the conventional
\* subdirectory or not; without a template URL it is the conventional
\* subdirectory when the module has it, and no further scratch directory is
\* made; the default template (the two files terragrunt.hcl and
\* boilerplate.yml) is written to a new scratch directory exactly when no
\* template URL was given and the module has no conventional subdirectory.
C18_TemplateDirPrecedence ==
    /\ Selected =>
          /\ templateURLArg # EmptyString =>
                /\ boilerplateDir = <<"template">>
                /\ \E c \in GetAnyInto(boilerplateDir) : c.err = "nil"
          /\ (templateURLArg = EmptyString /\ IsExistingDir(fs, ConventionalDir)) =>
                /\ boilerplateDir = ConventionalDir
                /\ fs \cap ScratchDirs = {<<"scaffold">>}
          /\ (templateURLArg = EmptyString /\ ~IsExistingDir(fs, ConventionalDir)) =>
                /\ boilerplateDir = <<"boilerplate">>
                /\ FilesIn(boilerplateDir)
                      = { JoinPath(boilerplateDir, f) : f \in DefaultTemplateFiles }
          /\ boilerplateOpts # <<>> => boilerplateOpts[1].TemplateFolder = boilerplateDir
    /\ (pc # "Returned" /\ <<"boilerplate">> \in fs) =>
          /\ templateURLArg = EmptyString
          /\ ~IsExistingDir(fs, ConventionalDir)

\* C18 witness: a template URL was given, the module fetched has the
\* conventional subdirectory, and the fetched template directory was selected
C18_Witness_TemplateOverConventional ==
    /\ Selected
    /\ templateURLArg # EmptyString
    /\ IsExistingDir(fs, ConventionalDir)
    /\ boilerplateDir = <<"template">>

----------------------------------------------------------------------------
(* C19 *)

\* positions in calls of the tag lookups for the root of a URL
LookupPositions(root) ==
    { i \in CallPositions("GitLastReleaseTag") : calls[i].url.path = root }

\* C19: in a run the fetcher is called at most once for the module and at
\* most once for the template, the tag lookup at most once for the module URL
\* and at most once for the template URL, the template engine and the
\* formatter at most once each, whatever the calls return.
C19_NoRetries ==
    /\ Cardinality(FetchPositions(<<"scaffold">>)) <= 1
    /\ Cardinality(FetchPositions(<<"template">>)) <= 1
    /\ Cardinality(CallPositions("GetAny")) <= 2
    /\ Cardinality(LookupPositions(RootPath(NormalisedModuleURL.path))) <= 1
    /\ Cardinality(LookupPositions(RootPath(NormalisedTemplateURL.path))) <= 1
    /\ Cardinality(CallPositions("GitLastReleaseTag")) <= 2
    /\ Cardinality(CallPositions("ProcessTemplate")) <= 1
    /\ Cardinality(CallPositions("hclfmt")) <= 1

\* C19 witness: the tag lookup failed for the module and for the template, the
\* template fetch failed, and Run returned with each called once
C19_Witness_FailuresNotRetried ==
    /\ pc = "Returned"
    /\ moduleLookup.err = "GitLastReleaseTagError"
    /\ templateLookup.err = "GitLastReleaseTagError"
    /\ Cardinality(CallPositions("GitLastReleaseTag")) = 2
    /\ Cardinality(CallPositions("GetAny")) = 2
    /\ err = "GetAnyError"

----------------------------------------------------------------------------
(* C20 *)

\* C20: whenever the template engine is called, the value under sourceUrl in
\* the environment is the URL string the fetcher was called with for the
\* module in the same run, and that fetch succeeded.
C20_SourceURLIsFetchedURL ==
    Rendering =>
        /\ Cardinality(GetAnyInto(<<"scaffold">>)) = 1
        /\ \A c \in GetAnyInto(<<"scaffold">>) :
              /\ c.err = "nil"
              /\ Environment["sourceUrl"] = StrVal(c.url)
              /\ boilerplateOpts[1].Vars["sourceUrl"].v = c.url

\* C20 witness: the template engine was called with a sourceUrl rewritten to
\* ssh and pinned by the override, which is the URL that was fetched
C20_Witness_ResolvedURLRendered ==
    /\ Rendering
    /\ moduleURL # moduleURLArg
    /\ moduleURL.scheme = "ssh"
    /\ Get(Query(moduleURL.query), refParam) = "v2"
    /\ Environment["sourceUrl"] = StrVal(moduleURL)

====
